---- MODULE Spec2Model ----
(***************************************************************************)
(* A model of audioldm2/utils.py: the dotted-path resolver                 *)
(* (get_obj_from_str), the config resolver (instantiate_from_config), the  *)
(* value-default helper (default / exists), the download progress callback *)
(* (MyProgressBar) and the checkpoint download (download_checkpoint).      *)
(*                                                                         *)
(* Python strings are sequences of characters (or of separator-free        *)
(* chunks), so that splitting, substring search and path arithmetic are    *)
(* computed, not assumed.  Every call records what it did in `events` and  *)
(* how it ended in `out`.                                                  *)
(***************************************************************************)
EXTENDS Integers, Sequences, FiniteSets, TLC

\* ---------------------------------------------------------------- bounds
MaxLen == 5          \* longest identifier string, in characters
MaxVersion == 2      \* most executions of one namespace's source
MaxDirLen == 4       \* longest cache directory, in path chunks
MaxBlocks == 2       \* largest block_num / block_size reported
MaxInt == 3          \* largest integer handed to default
MaxTotal == 3        \* largest total_size reported
MaxCalls == 3        \* progress callbacks counted on one instance

VARIABLES
    string,      \* the identifier under resolution (a Python str)
    modules,     \* sys.modules: namespace -> [loaded, version]
    call,        \* the last call made: its function and arguments
    events,      \* what the last call did, in order
    out,         \* how the last call ended: a return value or a raised exception
    pbar,        \* MyProgressBar.pbar: None or the progress bar object
    pbarLog,     \* what one MyProgressBar instance has done to its bar so far
    CACHE_DIR    \* the module-level cache directory (a path)

vars == <<string, modules, call, events, out, pbar, pbarLog, CACHE_DIR>>

\* ------------------------------------------------------------ Python values
None == [t |-> "None"]
Return(v) == [kind |-> "return", value |-> v]
Raise(type, at) == [kind |-> "raise", exc |-> [type |-> type, at |-> at]]
NoCall == [fn |-> "none"]

\* sequences over S of length at most n
SeqUpTo(S, n) == UNION {[1..k -> S] : k \in 0..n}

\* x in s, for two Python strings: s has x as a contiguous substring
Substring(x, s) ==
    \E i \in 0..(Len(s) - Len(x)) : SubSeq(s, i + 1, i + Len(x)) = x

\* the number of events of kind op
Count(evs, op) == Cardinality({i \in 1..Len(evs) : evs[i].op = op})
\* the positions of the events of kind op
Positions(evs, op) == {i \in 1..Len(evs) : evs[i].op = op}

\* ------------------------------------------------- the host's namespaces
Dot == "."
IdAlphabet == {"a", "C", Dot}
Identifiers == SeqUpTo(IdAlphabet, MaxLen)

NsA == <<"a">>                  \* the package a
NsAA == <<"a", Dot, "a">>       \* its submodule a.a
ExistingModules == {NsA, NsAA}

\* the names each namespace's source defines, and what kind of object each is
Defines(ns) == {<<"C">>}
SymbolKind(ns, name) == IF ns = NsAA THEN "class" ELSE "raising_class"

Symbol(mods, ns, name) ==
    [t |-> "symbol", ns |-> ns, name |-> name, version |-> mods[ns].version]
ModuleObject(mods, ns) == [t |-> "module", ns |-> ns, version |-> mods[ns].version]

Unloaded == [loaded |-> FALSE, version |-> 0]
Imported == [loaded |-> TRUE, version |-> 1]
\* sys.modules as the process holds it before the first call: what earlier imports
\* loaded, a submodule only with its package
ModuleStates ==
    {m \in [ExistingModules -> {Unloaded, Imported}] : m[NsAA].loaded => m[NsA].loaded}

\* the packages on the way to ns, and ns itself
Prefixes(ns) == {SubSeq(ns, 1, i - 1) : i \in {j \in 1..Len(ns) : ns[j] = Dot}} \cup {ns}
\* those of them the import system gets to load: each after all shorter ones
LoadChain(ns) ==
    {p \in Prefixes(ns) :
        \A q \in Prefixes(ns) : Len(q) <= Len(p) => q \in ExistingModules}

\* importlib.import_module(name, package=None)
ImportModule(mods, ns) ==
    IF ns = <<>> THEN
        [modules |-> mods, out |-> Raise("ValueError", "import_module")]
    ELSE IF ns[1] = Dot THEN
        [modules |-> mods, out |-> Raise("TypeError", "import_module")]
    ELSE
        LET loaded == [m \in ExistingModules |->
                          IF m \in LoadChain(ns) /\ ~mods[m].loaded
                          THEN Imported
                          ELSE mods[m]]
        IN  IF ns \in ExistingModules
            THEN [modules |-> loaded, out |-> Return(ModuleObject(loaded, ns))]
            ELSE [modules |-> loaded, out |-> Raise("ModuleNotFoundError", "import_module")]

\* importlib.reload(module): the namespace's source is executed once more
ReloadSkipped(mods, ns) == mods
Reload(mods, ns) ==
    [mods EXCEPT ![ns] = [loaded |-> TRUE, version |-> mods[ns].version + 1]]

\* getattr(module, name): a name the source defines, or a loaded submodule
Getattr(mods, ns, name) ==
    IF name \in Defines(ns) THEN Return(Symbol(mods, ns, name))
    ELSE IF (ns \o <<Dot>> \o name) \in ExistingModules
            /\ mods[ns \o <<Dot>> \o name].loaded
         THEN Return(ModuleObject(mods, ns \o <<Dot>> \o name))
         ELSE Raise("AttributeError", "getattr")

\* obj(**kwargs)
Invoke(obj, kwargs) ==
    IF obj.t = "symbol" /\ SymbolKind(obj.ns, obj.name) = "class"
    THEN Return([t |-> "instance", cls |-> obj, kwargs |-> kwargs])
    ELSE IF obj.t = "symbol"
         THEN Raise("RuntimeError", "constructor")
         ELSE Raise("TypeError", "not_callable")

\* ------------------------------------------------------- get_obj_from_str
LastDot(s) == CHOOSE i \in 1..Len(s) : s[i] = Dot /\ \A j \in (i + 1)..Len(s) : s[j] # Dot
FirstDot(s) == CHOOSE i \in 1..Len(s) : s[i] = Dot /\ \A j \in 1..(i - 1) : s[j] # Dot

\* string.split(".", 1)
SplitFirst(s) ==
    IF \A i \in 1..Len(s) : s[i] # Dot THEN <<s>>
    ELSE <<SubSeq(s, 1, FirstDot(s) - 1), SubSeq(s, FirstDot(s) + 1, Len(s))>>
\* string.rsplit(".", 1)
RSplit1(s) ==
    IF \A i \in 1..Len(s) : s[i] # Dot THEN <<s>>
    ELSE <<SubSeq(s, 1, LastDot(s) - 1), SubSeq(s, LastDot(s) + 1, Len(s))>>

\* lines 95-97: module_imp = importlib.import_module(module); importlib.reload(module_imp)
ReloadBlock(mods, module) ==
    LET imp == ImportModule(mods, module)
    IN  IF imp.out.kind = "raise"
        THEN [modules |-> imp.modules, out |-> imp.out,
              events |-> <<[op |-> "import_module", ns |-> module]>>]
        ELSE [modules |-> Reload(imp.modules, module), out |-> Return(None),
              events |-> <<[op |-> "import_module", ns |-> module],
                           [op |-> "reload", ns |-> module]>>]

\* line 98: getattr(importlib.import_module(module, package=None), cls)
LookupLine(mods, module, cls) ==
    LET imp == ImportModule(mods, module)
    IN  IF imp.out.kind = "raise"
        THEN [modules |-> imp.modules, out |-> imp.out,
              events |-> <<[op |-> "import_module", ns |-> module]>>]
        ELSE [modules |-> imp.modules, out |-> Getattr(imp.modules, module, cls),
              events |-> <<[op |-> "import_module", ns |-> module],
                           [op |-> "getattr", ns |-> module, name |-> cls]>>]

\* lines 93-98
GetObjFromStr(mods, s, reload) ==
    LET parts == RSplit1(s)
        entered == <<[op |-> "get_obj_from_str", reload |-> reload]>>
    IN  IF Len(parts) # 2
        THEN [modules |-> mods, out |-> Raise("ValueError", "unpack"), events |-> entered]
        ELSE
            LET module == parts[1]
                cls == parts[2]
                pre == IF reload THEN ReloadBlock(mods, module)
                       ELSE [modules |-> mods, out |-> Return(None), events |-> <<>>]
            IN  IF pre.out.kind = "raise"
                THEN [pre EXCEPT !.events = entered \o @]
                ELSE LET look == LookupLine(pre.modules, module, cls)
                     IN  [modules |-> look.modules, out |-> look.out,
                          events |-> entered \o pre.events \o look.events]

\* ------------------------------------------------ instantiate_from_config
StrConfig(s) == [t |-> "str", s |-> s]
DictConfig(hasTarget, target, hasParams, params) ==
    [t |-> "dict", hasTarget |-> hasTarget, target |-> target,
     hasParams |-> hasParams, params |-> params]

TargetKey == <<"t", "a", "r", "g", "e", "t">>
IsFirstStage ==
    <<"_", "_", "i", "s", "_", "f", "i", "r", "s", "t", "_", "s", "t", "a", "g", "e", "_", "_">>
IsUnconditional ==
    <<"_", "_", "i", "s", "_", "u", "n", "c", "o", "n", "d", "i", "t", "i", "o", "n", "a", "l", "_", "_">>

\* keyword arguments: a set of <<name, value>> pairs
EmptyDict == {}
ParamSets == {EmptyDict, {<<"x", 1>>}, {<<"x", 1>>, <<"y", 2>>}}

\* the strings handed to the resolver in place of a mapping
StrConfigs ==
    {IsFirstStage, IsUnconditional, TargetKey, <<"m", "y", "_">> \o TargetKey,
     <<"t", "a", "r">>, <<>>}

\* line 102: "target" in config
ContainsTarget(config) ==
    IF config.t = "str" THEN Substring(TargetKey, config.s) ELSE config.hasTarget

\* lines 103-107
NoTargetFirstOnly(config) ==
    IF config.t = "str" /\ config.s = IsFirstStage THEN Return(None)
    ELSE Raise("KeyError", "missing_target")
NoTargetNoRaise(config) == Return(None)
NoTarget(config) ==
    IF config.t = "str" /\ config.s = IsFirstStage THEN Return(None)
    ELSE IF config.t = "str" /\ config.s = IsUnconditional THEN Return(None)
    ELSE Raise("KeyError", "missing_target")

\* line 93: the default of get_obj_from_str's reload parameter
DefaultReload == FALSE

\* line 109: config.get("params", dict())
GetParamsIgnored(config) == EmptyDict
GetParams(config) == IF config.hasParams THEN config.params ELSE EmptyDict

\* line 109: get_obj_from_str(config["target"])(**config.get("params", dict()))
TryBody(mods, config) ==
    IF config.t = "str"
    THEN [modules |-> mods, out |-> Raise("TypeError", "subscript"), events |-> <<>>]
    ELSE
        LET got == GetObjFromStr(mods, config.target, DefaultReload)
        IN  IF got.out.kind = "raise" THEN got
            ELSE [modules |-> got.modules,
                  out |-> Invoke(got.out.value, GetParams(config)),
                  events |-> got.events \o
                      <<[op |-> "invoke", obj |-> got.out.value,
                         kwargs |-> GetParams(config)]>>]

\* what the host does at lines 111-113: ipdb may be missing; a session it opens
\* ends with the user continuing or quitting
Debugger == {"not_installed", "continue", "quit"}

\* lines 110-113: except: import ipdb; ipdb.set_trace()
Handler(body, dbg) ==
    LET caught == <<[op |-> "except", exc |-> body.out.exc]>>
    IN  IF dbg = "not_installed"
        THEN [modules |-> body.modules,
              out |-> Raise("ModuleNotFoundError", "import_ipdb"),
              events |-> body.events \o caught]
        ELSE [modules |-> body.modules,
              out |-> IF dbg = "continue" THEN Return(None)
                      ELSE Raise("BdbQuit", "set_trace"),
              events |-> body.events \o caught \o <<[op |-> "set_trace"]>>]

InstantiateFromConfig(mods, config, dbg) ==
    IF ~ContainsTarget(config)
    THEN [modules |-> mods, out |-> NoTarget(config), events |-> <<>>]
    ELSE LET body == TryBody(mods, config)
         IN  IF body.out.kind = "raise" THEN Handler(body, dbg) ELSE body

\* ------------------------------------------------------------ the resolver
ResolverInit ==
    /\ string \in Identifiers
    /\ modules \in ModuleStates
    /\ call = NoCall
    /\ events = <<>>
    /\ out = Return(None)
    /\ pbar = None
    /\ pbarLog = [calls |-> 0]
    /\ CACHE_DIR = <<>>

\* a reload is counted up to MaxVersion executions of a namespace
MayReload == \A m \in ExistingModules : modules[m].version < MaxVersion

CallGetObjFromStr ==
    \E reload \in BOOLEAN :
        /\ reload => MayReload
        /\ \E r \in {GetObjFromStr(modules, string, reload)} :
               /\ modules' = r.modules
               /\ events' = r.events
               /\ out' = r.out
               /\ call' = [fn |-> "get_obj_from_str", reload |-> reload]
        /\ UNCHANGED <<string, pbar, pbarLog, CACHE_DIR>>

\* the configs built around the identifier, and the strings
Configs ==
    {DictConfig(TRUE, string, FALSE, EmptyDict)}
    \cup {DictConfig(TRUE, string, TRUE, p) : p \in ParamSets}
    \cup {DictConfig(FALSE, <<>>, FALSE, EmptyDict)}
    \cup {DictConfig(FALSE, <<>>, TRUE, {<<"x", 1>>})}
    \cup {StrConfig(s) : s \in StrConfigs}

CallInstantiateFromConfig ==
    \E config \in Configs, dbg \in Debugger :
        /\ \E r \in {InstantiateFromConfig(modules, config, dbg)} :
               /\ modules' = r.modules
               /\ events' = r.events
               /\ out' = r.out
               /\ call' = [fn |-> "instantiate_from_config", config |-> config]
        /\ UNCHANGED <<string, pbar, pbarLog, CACHE_DIR>>

Next == CallGetObjFromStr \/ CallInstantiateFromConfig

Spec == ResolverInit /\ [][Next]_vars

\* ------------------------------------------------------------------ default
PyInt(n) == [t |-> "int", v |-> n]
PyStr(s) == [t |-> "str", s |-> s]
PyList(l) == [t |-> "list", l |-> l]
\* a callable of the given kind whose invocation, with no arguments, yields r
Callable(kind, r) == [t |-> kind, returns |-> r]

PlainValues == {PyInt(n) : n \in 0..MaxInt} \cup {PyStr(<<>>), PyList(<<>>)}
CallableKinds == {"function", "lambda", "class", "builtin", "callable_object"}
Vals == {None} \cup PlainValues
Defaults ==
    {None} \cup PlainValues
    \cup {Callable(k, PyInt(n)) : k \in CallableKinds, n \in {0, MaxInt}}

\* line 76-77: x is not None
Exists(x) == x.t # "None"

\* builtins.callable(d)
IsCallable(d) == d.t \in CallableKinds
\* inspect.isfunction(d): d is a types.FunctionType, which def and lambda make
IsFunction(d) == d.t \in {"function", "lambda"}

\* lines 80-83
Default(val, d) ==
    IF Exists(val) THEN [out |-> Return(val), events |-> <<>>]
    ELSE IF IsFunction(d)
         THEN [out |-> Return(d.returns), events |-> <<[op |-> "invoke", obj |-> d]>>]
         ELSE [out |-> Return(d), events |-> <<>>]

Idle ==
    /\ call = NoCall
    /\ events = <<>>
    /\ out = Return(None)

DefaultInit ==
    /\ Idle
    /\ string = <<>>
    /\ modules = [m \in ExistingModules |-> Unloaded]
    /\ pbar = None
    /\ pbarLog = [calls |-> 0]
    /\ CACHE_DIR = <<>>

CallDefault ==
    \E val \in Vals, d \in Defaults :
        /\ \E r \in {Default(val, d)} :
               /\ events' = r.events
               /\ out' = r.out
        /\ call' = [fn |-> "default", val |-> val, d |-> d]
        /\ UNCHANGED <<string, modules, pbar, pbarLog, CACHE_DIR>>

DefaultSpec == DefaultInit /\ [][CallDefault]_vars

\* ------------------------------------------------------------ MyProgressBar
ProgressBar(maxval) == [t |-> "ProgressBar", maxval |-> maxval]

\* line 328: the truth value of self.pbar; a ProgressBar defines neither __bool__
\* nor __len__, so only None is false
TruthyNever(obj) == FALSE
Truthy(obj) == obj.t # "None"

NewLog == [calls |-> 0, created |-> 0, started |-> 0, finishes |-> 0,
           last |-> [op |-> "none", value |-> 0]]

\* lines 323-325: __init__
ProgressInit ==
    /\ Idle
    /\ string = <<>>
    /\ modules = [m \in ExistingModules |-> Unloaded]
    /\ pbar = None
    /\ pbarLog = NewLog
    /\ CACHE_DIR = <<>>

\* lines 328-330
EnsureBar(bar, log, total_size) ==
    IF ~Truthy(bar)
    THEN [pbar |-> ProgressBar(total_size),
          log |-> [log EXCEPT !.created = @ + 1, !.started = @ + 1]]
    ELSE [pbar |-> bar, log |-> log]

\* lines 332-336
ReportInclusive(log, block_num, block_size, total_size) ==
    IF block_num * block_size <= total_size
    THEN [log EXCEPT !.last = [op |-> "update", value |-> block_num * block_size]]
    ELSE [log EXCEPT !.last = [op |-> "finish", value |-> 0], !.finishes = @ + 1]
Report(log, block_num, block_size, total_size) ==
    IF block_num * block_size < total_size
    THEN [log EXCEPT !.last = [op |-> "update", value |-> block_num * block_size]]
    ELSE [log EXCEPT !.last = [op |-> "finish", value |-> 0], !.finishes = @ + 1]

\* lines 327-336: __call__
ProgressCall ==
    /\ pbarLog.calls < MaxCalls
    /\ \E block_num \in 0..MaxBlocks, block_size \in 0..MaxBlocks, total_size \in 0..MaxTotal :
        /\ \E e \in {EnsureBar(pbar, pbarLog, total_size)} :
               /\ pbar' = e.pbar
               /\ pbarLog' = [Report(e.log, block_num, block_size, total_size)
                                 EXCEPT !.calls = @ + 1]
        /\ call' = [fn |-> "MyProgressBar.__call__", block_num |-> block_num,
                    block_size |-> block_size, total_size |-> total_size]
        /\ UNCHANGED <<string, modules, events, out, CACHE_DIR>>

ProgressSpec == ProgressInit /\ [][ProgressCall]_vars

\* ------------------------------------------------------ download_checkpoint
Sep == "/"
FileName == "audioldm2-full.pth"
Paths == SeqUpTo({Sep, "c"}, MaxDirLen)
CheckpointNames == {"audioldm2-full", "audioldm2-music", "audioldm-s-full"}

AllSeps(p) == \A i \in 1..Len(p) : p[i] = Sep
\* p.rfind("/") + 1
AfterLastSep(p) ==
    IF \A i \in 1..Len(p) : p[i] # Sep THEN 0
    ELSE CHOOSE i \in 1..Len(p) : p[i] = Sep /\ \A j \in (i + 1)..Len(p) : p[j] # Sep

RECURSIVE RStripSep(_)
\* p.rstrip("/")
RStripSep(p) ==
    IF p # <<>> /\ p[Len(p)] = Sep THEN RStripSep(SubSeq(p, 1, Len(p) - 1)) ELSE p

\* os.path.join(a, b)
Join(a, b) ==
    IF b # <<>> /\ b[1] = Sep THEN b
    ELSE IF a = <<>> \/ a[Len(a)] = Sep THEN a \o b
    ELSE a \o <<Sep>> \o b

\* os.path.basename(p)
BasenameWhole(p) == p
Basename(p) == SubSeq(p, AfterLastSep(p) + 1, Len(p))

\* os.path.dirname(p)
Dirname(p) ==
    LET head == SubSeq(p, 1, AfterLastSep(p))
    IN  IF head # <<>> /\ ~AllSeps(head) THEN RStripSep(head) ELSE head

\* lines 311-320: the metadata table, its keys and an entry's path
MetaKeys == {"audioldm2-full"}
MetaPath(dir, name) == Join(dir, <<FileName>>)

\* lines 339-352; the download itself ends by returning or by raising
DownloadCheckpoint(dir, checkpoint_name, downloads) ==
    LET warned == IF checkpoint_name \notin MetaKeys
                  THEN <<[op |-> "print", name |-> checkpoint_name]>> ELSE <<>>
    IN  IF checkpoint_name \notin MetaKeys
        THEN [out |-> Raise("KeyError", "meta_subscript"), events |-> warned]
        ELSE [out |-> IF downloads THEN Return(None) ELSE Raise("HfHubError", "hf_hub_download"),
              events |-> warned \o
                  <<[op |-> "hf_hub_download",
                     repo_id |-> <<"haoheliu", Sep, checkpoint_name>>,
                     filename |-> Basename(MetaPath(dir, checkpoint_name)),
                     local_dir |-> Dirname(MetaPath(dir, checkpoint_name))]>>]

\* lines 13-15: CACHE_DIR is read from the environment when the module is loaded
DownloadInit ==
    /\ Idle
    /\ string = <<>>
    /\ modules = [m \in ExistingModules |-> Unloaded]
    /\ pbar = None
    /\ pbarLog = [calls |-> 0]
    /\ CACHE_DIR \in Paths

CallDownloadCheckpoint ==
    \E checkpoint_name \in CheckpointNames, downloads \in BOOLEAN :
        /\ \E r \in {DownloadCheckpoint(CACHE_DIR, checkpoint_name, downloads)} :
               /\ events' = r.events
               /\ out' = r.out
        /\ call' = [fn |-> "download_checkpoint", checkpoint_name |-> checkpoint_name]
        /\ UNCHANGED <<string, modules, pbar, pbarLog, CACHE_DIR>>

DownloadSpec == DownloadInit /\ [][CallDownloadCheckpoint]_vars

\* -------------------------------------------------------------- properties
Instantiated == call.fn = "instantiate_from_config"
Resolved == call.fn = "get_obj_from_str"
Sentinels == {IsFirstStage, IsUnconditional}
HasDot(s) == \E i \in 1..Len(s) : s[i] = Dot
\* the part of s before its last separator is ns
SplitsAtLast(s, ns) ==
    /\ Len(ns) < Len(s)
    /\ SubSeq(s, 1, Len(ns)) = ns
    /\ s[Len(ns) + 1] = Dot
    /\ \A j \in (Len(ns) + 2)..Len(s) : s[j] # Dot
NamespaceEvents == {"import_module", "reload", "getattr"}

\* C1: when resolution or construction raises for a config with a `target` key, the
\* caller gets a ConstructionFailed error and no debugger session is opened.
C1_FailureSurfaced ==
    (Instantiated /\ call.config.t = "dict" /\ call.config.hasTarget
        /\ Count(events, "except") > 0)
    => (/\ out.kind = "raise"
        /\ out.exc.type = "ConstructionFailed"
        /\ Count(events, "set_trace") = 0)

\* C2: each of the two sentinel strings yields None, with no call of
\* get_obj_from_str, no import and no constructor invocation.
C2_SentinelReturnsNone ==
    (Instantiated /\ call.config.t = "str" /\ call.config.s \in Sentinels)
    => (out = Return(None) /\ events = <<>>)
C2_Witness ==
    /\ Instantiated /\ call.config.t = "str" /\ call.config.s = IsUnconditional
    /\ out.kind = "return"

\* C3 as stated: every input without a `target` key that is not a sentinel fails with
\* KeyError before any resolution or invocation.
C3_Original ==
    (Instantiated /\ ~(call.config.t = "dict" /\ call.config.hasTarget)
        /\ ~(call.config.t = "str" /\ call.config.s \in Sentinels))
    => (out = Raise("KeyError", "missing_target") /\ events = <<>>)
\* C3 as amended: every mapping without a `target` key, and every string that is no
\* sentinel and does not contain the text "target", fails with KeyError before any
\* resolution or invocation.
C3_MissingTargetKey ==
    (Instantiated
        /\ \/ call.config.t = "dict" /\ ~call.config.hasTarget
           \/ /\ call.config.t = "str"
              /\ ~Substring(TargetKey, call.config.s)
              /\ call.config.s \notin Sentinels)
    => (out = Raise("KeyError", "missing_target") /\ events = <<>>)
C3_Witness ==
    /\ Instantiated /\ call.config.t = "dict" /\ ~call.config.hasTarget
    /\ call.config.hasParams
    /\ out.kind = "raise"

\* C4: a config whose target resolves to a constructor that does not raise invokes it
\* exactly once with exactly the entries of `params` (none when absent) and returns
\* what it produced.
C4_ConstructsWithParams ==
    \A ns \in ExistingModules : \A name \in Defines(ns) :
        (Instantiated /\ call.config.t = "dict" /\ call.config.hasTarget
            /\ call.config.target = ns \o <<Dot>> \o name
            /\ SymbolKind(ns, name) = "class")
        => LET kwargs == IF call.config.hasParams THEN call.config.params ELSE {}
           IN  /\ Count(events, "invoke") = 1
               /\ \A i \in Positions(events, "invoke") :
                      /\ events[i].kwargs = kwargs
                      /\ events[i].obj.ns = ns /\ events[i].obj.name = name
               /\ out.kind = "return"
               /\ out.value.t = "instance"
               /\ out.value.kwargs = kwargs
               /\ out.value.cls.ns = ns /\ out.value.cls.name = name
C4_Witness ==
    /\ Instantiated /\ call.config.t = "dict" /\ call.config.hasTarget
    /\ call.config.hasParams /\ call.config.params = {<<"x", 1>>, <<"y", 2>>}
    /\ out.kind = "return" /\ out.value.t = "instance"

\* C5: an identifier with a separator is split at its last separator; exactly the
\* namespace before it is loaded, and the symbol after it is returned when the
\* namespace defines it.
C5_SplitsAtLastSeparator ==
    (Resolved /\ HasDot(string))
    => /\ Count(events, "import_module") >= 1
       /\ \A i \in 1..Len(events) :
              events[i].op \in NamespaceEvents => SplitsAtLast(string, events[i].ns)
       /\ \A i \in Positions(events, "getattr") :
              string = events[i].ns \o <<Dot>> \o events[i].name
       /\ \A ns \in ExistingModules : \A name \in Defines(ns) :
              string = ns \o <<Dot>> \o name
              => (/\ out.kind = "return"
                  /\ out.value = Symbol(modules, ns, name))
C5_Witness ==
    /\ Resolved /\ string = NsAA \o <<Dot, "C">>
    /\ out.kind = "return" /\ out.value.t = "symbol"

\* C6: an identifier with no separator fails in get_obj_from_str before any namespace
\* is loaded or reloaded, and as a `target` it ends in an error reported to the caller.
C6_MalformedIdentifier ==
    ~HasDot(string)
    => /\ Resolved
          => (/\ out = Raise("ValueError", "unpack")
              /\ \A i \in 1..Len(events) : events[i].op \notin NamespaceEvents)
       /\ (Instantiated /\ call.config.t = "dict" /\ call.config.hasTarget)
          => out.kind = "raise"

Defaulted == call.fn = "default"

\* C7 as stated: a present val is returned and d is not invoked; for an absent val a
\* non-callable d is returned itself, and every callable d is invoked exactly once and
\* its result returned.
C7_Original ==
    Defaulted
    => /\ call.val.t # "None" => (out = Return(call.val) /\ events = <<>>)
       /\ (call.val.t = "None" /\ call.d.t \notin CallableKinds)
          => (out = Return(call.d) /\ events = <<>>)
       /\ (call.val.t = "None" /\ call.d.t \in CallableKinds)
          => (out = Return(call.d.returns) /\ Count(events, "invoke") = 1)
\* C7 as amended: a present val is returned and d is not invoked; for an absent val a
\* d made by def or lambda is invoked exactly once and its result returned, and any
\* other d (a class, a builtin or another callable object included) is returned itself,
\* not invoked.
C7_DefaultInvokesFunctionsOnly ==
    Defaulted
    => /\ call.val.t # "None" => (out = Return(call.val) /\ events = <<>>)
       /\ (call.val.t = "None" /\ call.d.t \in {"function", "lambda"})
          => (/\ out = Return(call.d.returns)
              /\ Count(events, "invoke") = 1
              /\ \A i \in Positions(events, "invoke") : events[i].obj = call.d)
       /\ (call.val.t = "None" /\ call.d.t \notin {"function", "lambda"})
          => (out = Return(call.d) /\ events = <<>>)
C7_Witness ==
    /\ Defaulted /\ call.val.t = "None" /\ call.d.t = "class"
    /\ out.value = call.d /\ events = <<>>

\* C8: with the reload flag set the namespace is reloaded exactly once, before the
\* lookup, and the returned symbol is the reloaded namespace's; with the flag unset
\* nothing is reloaded and a loaded namespace is reused; instantiate_from_config
\* resolves with the flag unset.
C8_ReloadBeforeLookup ==
    [][/\ (call'.fn = "get_obj_from_str" /\ call'.reload /\ out'.kind = "return")
          => /\ Count(events', "reload") = 1
             /\ Count(events', "getattr") = 1
             /\ \A i \in Positions(events', "reload") :
                    /\ \A j \in Positions(events', "getattr") :
                           i < j /\ events'[j].ns = events'[i].ns
                    /\ modules'[events'[i].ns].version =
                           (IF modules[events'[i].ns].loaded
                            THEN modules[events'[i].ns].version ELSE 1) + 1
                    /\ out'.value.t = "symbol"
                       => /\ out'.value.ns = events'[i].ns
                          /\ out'.value.version = modules'[events'[i].ns].version
       /\ (call'.fn = "get_obj_from_str" /\ ~call'.reload)
          => /\ Count(events', "reload") = 0
             /\ \A m \in ExistingModules : modules[m].loaded => modules'[m] = modules[m]
       /\ call'.fn = "instantiate_from_config"
          => /\ Count(events', "reload") = 0
             /\ \A i \in Positions(events', "get_obj_from_str") : ~events'[i].reload
             /\ \A m \in ExistingModules : modules[m].loaded => modules'[m] = modules[m]
      ]_vars
C8_Witness ==
    /\ Resolved /\ call.reload
    /\ out.kind = "return" /\ out.value.t = "symbol"
    /\ out.value.version = MaxVersion
    /\ Count(events, "reload") = 1

\* C9: the bar is created and started exactly once, on the first call, and never
\* again; a call with block_num * block_size < total_size issues an update with that
\* product and any other call issues finish, so no update carries a value at or above
\* total_size.
C9_BarCreatedOnce ==
    /\ pbarLog.calls = 0 => (pbarLog.created = 0 /\ pbarLog.started = 0 /\ pbar = None)
    /\ pbarLog.calls >= 1
       => /\ pbarLog.created = 1 /\ pbarLog.started = 1
          /\ pbar.t = "ProgressBar"
          /\ call.block_num * call.block_size < call.total_size
             => pbarLog.last = [op |-> "update", value |-> call.block_num * call.block_size]
          /\ call.block_num * call.block_size >= call.total_size
             => pbarLog.last.op = "finish"
          /\ pbarLog.last.op = "update" => pbarLog.last.value < call.total_size
C9_Witness ==
    /\ pbarLog.calls >= 2 /\ pbarLog.finishes >= 1
    /\ pbarLog.last.op = "update" /\ pbarLog.last.value > 0
    /\ pbarLog.created = 1
    /\ pbar.maxval # call.total_size

Downloaded == call.fn = "download_checkpoint"
\* dir names the directory of CACHE_DIR: CACHE_DIR less its trailing separators,
\* or CACHE_DIR itself when it is nothing but separators
IsCacheDirectory(dir) ==
    /\ Len(dir) <= Len(CACHE_DIR)
    /\ SubSeq(CACHE_DIR, 1, Len(dir)) = dir
    /\ \A i \in (Len(dir) + 1)..Len(CACHE_DIR) : CACHE_DIR[i] = Sep
    /\ \/ dir = CACHE_DIR /\ \A i \in 1..Len(dir) : dir[i] = Sep
       \/ dir # <<>> /\ dir[Len(dir)] # Sep

\* C10: a name absent from the metadata table is reported and no download is started;
\* a name in the table requests exactly one download, of the entry's file name into
\* the entry's directory under the cache directory.
C10_DownloadOnlyKnownNames ==
    Downloaded
    => /\ call.checkpoint_name # "audioldm2-full"
          => (Count(events, "print") = 1 /\ Count(events, "hf_hub_download") = 0)
       /\ call.checkpoint_name = "audioldm2-full"
          => /\ Count(events, "hf_hub_download") = 1
             /\ Count(events, "print") = 0
             /\ \A i \in Positions(events, "hf_hub_download") :
                    /\ events[i].filename = <<FileName>>
                    /\ IsCacheDirectory(events[i].local_dir)
C10_Witness ==
    /\ Downloaded /\ call.checkpoint_name = "audioldm2-full"
    /\ Count(events, "hf_hub_download") = 1
    /\ CACHE_DIR = <<Sep, "c", Sep, Sep>>

====
